---- MODULE Spec2Model ----
(***************************************************************************)
(* The in-memory knowledge-graph store of medkg/graph/schema.py:           *)
(* Node / Evidence / Edge value types with their construction checks, and  *)
(* GraphStore with add_node, add_edge (insert, validate, roll back),       *)
(* validate_with_umls, get_statistics and to_dict / from_dict.             *)
(*                                                                         *)
(* Python dicts are modelled as sequences of [k, v] records, so that       *)
(* insertion order (which list(self.nodes.keys())[0] and the replay order  *)
(* of from_dict read) is part of the state.  Confidence is an integer      *)
(* number of hundredths (0.85 is 85).  None is the string "None".          *)
(***************************************************************************)
EXTENDS Integers, Sequences, FiniteSets, TLC

\* nodes, edges, node_edges, edge_counter: the attributes of the one GraphStore.
\* result: the last call and how it ended.  returned: every id a successful
\* add_edge has returned on this store.  issued: the ids generated so far
\* (edge_counter, but not reset by from_dict).
VARIABLES nodes, edges, node_edges, edge_counter, result, returned, issued

vars == <<nodes, edges, node_edges, edge_counter, result, returned, issued>>

(* ---------------- GLOBAL CONSTRAINTS ---------------- *)
MAX_DEPTH == 2
MAX_NODES == 30
MIN_PUBMED_CITATIONS == 2

(* ---------------- bounds of the model ---------------- *)
\* add_edge is not called once the sequence counter has reached this value
MaxEdgeCounter == 3
\* add_edge is not called once this many ids have been generated in all
MaxIssued == 4
\* how many node ids beyond MAX_NODES the capacity specification offers
ExtraNodes == 1

None == "None"

(* ---------------- Python dict (insertion ordered) ---------------- *)
DictKeys(d) == [i \in 1..Len(d) |-> d[i].k]

DictKeySet(d) == {d[i].k : i \in 1..Len(d)}

DictHas(d, key) == \E i \in 1..Len(d) : d[i].k = key

DictGet(d, key) == d[CHOOSE i \in 1..Len(d) : d[i].k = key].v

\* d[key] = value: an existing key keeps its position, a new key goes last
DictSet(d, key, value) ==
    IF DictHas(d, key)
    THEN [i \in 1..Len(d) |-> IF d[i].k = key THEN [k |-> key, v |-> value] ELSE d[i]]
    ELSE Append(d, [k |-> key, v |-> value])

\* del d[key]
DictDel(d, key) == SelectSeq(d, LAMBDA p : p.k # key)

\* the dict as a mapping (Python's == on dicts ignores order)
DictMap(d) == [key \in DictKeySet(d) |-> DictGet(d, key)]

\* data.get(key, default) on a record
GetOr(data, key, default) == IF key \in DOMAIN data THEN data[key] ELSE default

\* list.remove(x): drops the first occurrence
RemoveFirst(s, x) ==
    LET i == CHOOSE j \in 1..Len(s) : s[j] = x /\ \A h \in 1..(j - 1) : s[h] # x
    IN  [j \in 1..(Len(s) - 1) |-> IF j < i THEN s[j] ELSE s[j + 1]]

InSeq(s, x) == \E i \in 1..Len(s) : s[i] = x

Max(a, b) == IF a >= b THEN a ELSE b

(* ---------------- SEED ENTITIES ---------------- *)
SEED_ENTITIES ==
    << [k |-> "intracranial_aneurysm_rupture",
        v |-> [label |-> "Intracranial Aneurysm Rupture", entity_type |-> "Disease",
               synonyms |-> <<"Brain Aneurysm Rupture", "Cerebral Aneurysm Rupture",
                              "Intracranial Aneurysm">>]],
       [k |-> "inflammation",
        v |-> [label |-> "Inflammation", entity_type |-> "Biological Process",
               synonyms |-> <<"Inflammatory Response", "Inflammatory Process">>]],
       [k |-> "hemodynamics",
        v |-> [label |-> "Hemodynamics", entity_type |-> "Biomechanical",
               synonyms |-> <<"Blood Flow Dynamics", "Hemodynamic Forces",
                              "Vascular Hemodynamics">>]] >>

(* ---------------- Node ---------------- *)
Node(node_id, label, entity_type, synonyms, ontology_ref, is_seed) ==
    [node_id |-> node_id, label |-> label, entity_type |-> entity_type,
     synonyms |-> synonyms, ontology_ref |-> ontology_ref, is_seed |-> is_seed]

\* Node.__post_init__: "ok" or the exception raised
NodePostInit(n) ==
    IF n.node_id = "" THEN "ValueError"
    ELSE IF n.label = "" THEN "ValueError"
    ELSE IF n.entity_type = "" THEN "ValueError"
    ELSE "ok"

NodeToDict(n) ==
    [node_id |-> n.node_id, label |-> n.label, entity_type |-> n.entity_type,
     synonyms |-> n.synonyms, ontology_ref |-> n.ontology_ref, is_seed |-> n.is_seed]

\* Node.from_dict: the constructor arguments read from a node record
NodeFromDict(data) ==
    Node(data.node_id, data.label, data.entity_type, GetOr(data, "synonyms", <<>>),
         GetOr(data, "ontology_ref", None), GetOr(data, "is_seed", FALSE))

(* ---------------- Evidence, Edge ---------------- *)
Evidence(pubmed_id, sentence) == [pubmed_id |-> pubmed_id, sentence |-> sentence]

EvidenceToDict(e) == [pubmed_id |-> e.pubmed_id, sentence |-> e.sentence]

EvidenceFromDict(data) == Evidence(data.pubmed_id, data.sentence)

Edge(source_node_id, target_node_id, relationship_type, evidence, confidence) ==
    [source_node_id |-> source_node_id, target_node_id |-> target_node_id,
     relationship_type |-> relationship_type, evidence |-> evidence,
     confidence |-> confidence]

\* a faulty variant: the citation minimum is not applied
EdgePostInitNoMinimum(e) ==
    IF e.source_node_id = "" THEN "ValueError"
    ELSE IF e.target_node_id = "" THEN "ValueError"
    ELSE IF e.relationship_type = "" THEN "ValueError"
    ELSE IF e.source_node_id = e.target_node_id THEN "ValueError"
    ELSE IF ~(0 <= e.confidence /\ e.confidence <= 100) THEN "ValueError"
    ELSE "ok"

\* a faulty variant: too few citations raise ValueError like the other field checks
EdgePostInitValueError(e) ==
    IF e.source_node_id = "" THEN "ValueError"
    ELSE IF e.target_node_id = "" THEN "ValueError"
    ELSE IF e.relationship_type = "" THEN "ValueError"
    ELSE IF e.source_node_id = e.target_node_id THEN "ValueError"
    ELSE IF ~(0 <= e.confidence /\ e.confidence <= 100) THEN "ValueError"
    ELSE IF Len(e.evidence) < MIN_PUBMED_CITATIONS THEN "ValueError"
    ELSE "ok"

\* Edge.__post_init__: "ok" or the exception raised
EdgePostInit(e) ==
    IF e.source_node_id = "" THEN "ValueError"
    ELSE IF e.target_node_id = "" THEN "ValueError"
    ELSE IF e.relationship_type = "" THEN "ValueError"
    ELSE IF e.source_node_id = e.target_node_id THEN "ValueError"
    ELSE IF ~(0 <= e.confidence /\ e.confidence <= 100) THEN "ValueError"
    ELSE IF Len(e.evidence) < MIN_PUBMED_CITATIONS THEN "ConstraintViolationError"
    ELSE "ok"

\* Edge.get_pubmed_ids
GetPubmedIds(e) == {e.evidence[i].pubmed_id : i \in 1..Len(e.evidence)}

EdgeToDict(e) ==
    [source_node_id |-> e.source_node_id, target_node_id |-> e.target_node_id,
     relationship_type |-> e.relationship_type,
     evidence |-> [i \in 1..Len(e.evidence) |-> EvidenceToDict(e.evidence[i])],
     confidence |-> e.confidence]

\* Edge.from_dict: the constructor arguments read from an edge record
EdgeFromDict(data) ==
    LET ev == GetOr(data, "evidence", <<>>)
    IN  Edge(data.source_node_id, data.target_node_id, data.relationship_type,
             [i \in 1..Len(ev) |-> EvidenceFromDict(ev[i])],
             GetOr(data, "confidence", 0))

(* ---------------- GraphStore ---------------- *)
\* the store as one value: the four attributes set in GraphStore.__init__
Store == [nodes |-> nodes, edges |-> edges, node_edges |-> node_edges,
          edge_counter |-> edge_counter]

\* node_edges[key] = value on the adjacency index
IndexSet(f, key, value) ==
    [x \in (DOMAIN f) \cup {key} |-> IF x = key THEN value ELSE f[x]]

\* if key not in node_edges: node_edges[key] = []
IndexEnsure(f, key) == IF key \in DOMAIN f THEN f ELSE IndexSet(f, key, <<>>)

RECURSIVE InitializeSeedsFrom(_, _)
InitializeSeedsFrom(S, i) ==
    IF i > Len(SEED_ENTITIES) THEN S
    ELSE LET node_id == SEED_ENTITIES[i].k
             entity_data == SEED_ENTITIES[i].v
             node == Node(node_id, entity_data.label, entity_data.entity_type,
                          GetOr(entity_data, "synonyms", <<>>), None, TRUE)
         IN  InitializeSeedsFrom(
                 [S EXCEPT !.nodes = DictSet(S.nodes, node_id, node),
                           !.node_edges = IndexSet(S.node_edges, node_id, <<>>)],
                 i + 1)

\* GraphStore._initialize_seed_entities
InitializeSeedEntities(S) == InitializeSeedsFrom(S, 1)

\* GraphStore.__init__
NewStore ==
    InitializeSeedEntities([nodes |-> <<>>, edges |-> <<>>, node_edges |-> <<>>,
                            edge_counter |-> 0])

\* a faulty variant: the node is rebuilt with the cui and loses its is_seed flag
ValidateWithUmlsRebuildsNode(S, node_id, umls_cui) ==
    IF ~DictHas(S.nodes, node_id)
    THEN [store |-> S, outcome |-> "ValueError"]
    ELSE LET n == DictGet(S.nodes, node_id)
         IN  [store |-> [S EXCEPT !.nodes =
                            DictSet(S.nodes, node_id,
                                    Node(node_id, n.label, n.entity_type, n.synonyms,
                                         umls_cui, FALSE))],
              outcome |-> "ok"]

\* GraphStore.validate_with_umls
ValidateWithUmlsOp(S, node_id, umls_cui) ==
    IF ~DictHas(S.nodes, node_id)
    THEN [store |-> S, outcome |-> "ValueError"]
    ELSE [store |-> [S EXCEPT !.nodes =
                        DictSet(S.nodes, node_id,
                                [DictGet(S.nodes, node_id) EXCEPT !.ontology_ref = umls_cui])],
          outcome |-> "ok"]

\* the f-string of _generate_edge_id
EdgeIdString(counter, source_id, target_id, rel_type) ==
    "E_" \o ToString(counter) \o "_" \o source_id \o "_" \o target_id \o "_" \o rel_type

\* a faulty variant: the id is built from the endpoints and the type only
GenerateEdgeIdNoCounter(S, source_id, target_id, rel_type) ==
    [store |-> [S EXCEPT !.edge_counter = S.edge_counter + 1],
     id |-> "E_" \o source_id \o "_" \o target_id \o "_" \o rel_type]

\* GraphStore._generate_edge_id: the store with the counter advanced, and the id
GenerateEdgeId(S, source_id, target_id, rel_type) ==
    [store |-> [S EXCEPT !.edge_counter = S.edge_counter + 1],
     id |-> EdgeIdString(S.edge_counter + 1, source_id, target_id, rel_type)]

\* the for loop of _bfs_depth: the (target, depth + 1) pairs appended for node_id
BfsSuccessors(S, node_id, depth, visited) ==
    LET edge_ids == IF node_id \in DOMAIN S.node_edges THEN S.node_edges[node_id] ELSE <<>>
        outgoing == SelectSeq(edge_ids,
                        LAMBDA edge_id :
                            /\ DictHas(S.edges, edge_id)
                            /\ DictGet(S.edges, edge_id).source_node_id = node_id
                            /\ DictGet(S.edges, edge_id).target_node_id \notin visited)
    IN  [i \in 1..Len(outgoing) |->
            <<DictGet(S.edges, outgoing[i]).target_node_id, depth + 1>>]

\* the while loop of _bfs_depth
RECURSIVE BfsLoop(_, _, _, _)
BfsLoop(S, queue, visited, max_depth) ==
    IF queue = <<>> THEN max_depth
    ELSE LET node_id == Head(queue)[1]
             depth == Head(queue)[2]
         IN  IF node_id \in visited
             THEN BfsLoop(S, Tail(queue), visited, max_depth)
             ELSE BfsLoop(S,
                          Tail(queue) \o BfsSuccessors(S, node_id, depth, visited \cup {node_id}),
                          visited \cup {node_id},
                          Max(max_depth, depth))

\* the number of entries of all adjacency lists
RECURSIVE AdjacencyEntries(_, _)
AdjacencyEntries(S, keys) ==
    IF keys = {} THEN 0
    ELSE LET k == CHOOSE x \in keys : TRUE
         IN  Len(S.node_edges[k]) + AdjacencyEntries(S, keys \ {k})

\* a faulty variant of the traced loop: nothing is remembered as visited
RECURSIVE BfsTraceLoopNoVisited(_, _, _, _, _)
BfsTraceLoopNoVisited(S, queue, visits, pops, fuel) ==
    IF queue = <<>> THEN [visits |-> visits, pops |-> pops, returned |-> TRUE]
    ELSE IF fuel = 0 THEN [visits |-> visits, pops |-> pops, returned |-> FALSE]
    ELSE LET node_id == Head(queue)[1]
             depth == Head(queue)[2]
         IN  BfsTraceLoopNoVisited(S,
                                   Tail(queue) \o BfsSuccessors(S, node_id, depth, {}),
                                   Append(visits, node_id), pops + 1, fuel - 1)

BfsTraceNoVisited(S, start_node_id) ==
    IF ~DictHas(S.nodes, start_node_id)
    THEN [visits |-> <<>>, pops |-> 0, returned |-> TRUE]
    ELSE BfsTraceLoopNoVisited(S, << <<start_node_id, 0>> >>, <<>>, 0,
                               2 + AdjacencyEntries(S, DOMAIN S.node_edges))

\* the while loop of _bfs_depth with its iterations recorded: the ids added to
\* visited, in order, the number of queue.pop(0) calls, and whether the queue
\* ran empty within fuel iterations
RECURSIVE BfsTraceLoop(_, _, _, _, _)
BfsTraceLoop(S, queue, visits, pops, fuel) ==
    IF queue = <<>> THEN [visits |-> visits, pops |-> pops, returned |-> TRUE]
    ELSE IF fuel = 0 THEN [visits |-> visits, pops |-> pops, returned |-> FALSE]
    ELSE LET node_id == Head(queue)[1]
             depth == Head(queue)[2]
             visited == {visits[i] : i \in 1..Len(visits)}
         IN  IF node_id \in visited
             THEN BfsTraceLoop(S, Tail(queue), visits, pops + 1, fuel - 1)
             ELSE BfsTraceLoop(S,
                               Tail(queue) \o BfsSuccessors(S, node_id, depth,
                                                            visited \cup {node_id}),
                               Append(visits, node_id), pops + 1, fuel - 1)

\* GraphStore._bfs_depth, traced; the fuel is one more than the loop can use
\* when every node is expanded at most once
BfsTrace(S, start_node_id) ==
    IF ~DictHas(S.nodes, start_node_id)
    THEN [visits |-> <<>>, pops |-> 0, returned |-> TRUE]
    ELSE BfsTraceLoop(S, << <<start_node_id, 0>> >>, <<>>, 0,
                      2 + AdjacencyEntries(S, DOMAIN S.node_edges))

\* GraphStore._bfs_depth
BfsDepth(S, start_node_id) ==
    IF ~DictHas(S.nodes, start_node_id) THEN 0
    ELSE BfsLoop(S, << <<start_node_id, 0>> >>, {}, 0)

RECURSIVE MaxOverSeeds(_, _, _)
MaxOverSeeds(S, seed_nodes, max_depth) ==
    IF seed_nodes = <<>> THEN max_depth
    ELSE MaxOverSeeds(S, Tail(seed_nodes), Max(max_depth, BfsDepth(S, Head(seed_nodes))))

\* GraphStore._calculate_max_depth
CalculateMaxDepth(S) ==
    IF S.nodes = <<>> THEN 0
    ELSE LET flagged == SelectSeq(DictKeys(S.nodes),
                                  LAMBDA node_id : DictGet(S.nodes, node_id).is_seed)
             seed_nodes == IF flagged = <<>> THEN <<DictKeys(S.nodes)[1]>> ELSE flagged
         IN  MaxOverSeeds(S, seed_nodes, 0)

\* GraphStore._validate_constraints: "ok" or the exception raised
ValidateConstraints(S) ==
    IF Len(S.nodes) > MAX_NODES THEN "ConstraintViolationError"
    ELSE IF CalculateMaxDepth(S) > MAX_DEPTH THEN "ConstraintViolationError"
    ELSE "ok"

\* a faulty variant: the capacity test is off by one
AddNodeOffByOne(S, node) ==
    IF Len(S.nodes) > MAX_NODES /\ ~DictHas(S.nodes, node.node_id)
    THEN [store |-> S, outcome |-> "ConstraintViolationError"]
    ELSE [store |-> [S EXCEPT !.nodes = DictSet(S.nodes, node.node_id, node),
                              !.node_edges = IndexEnsure(S.node_edges, node.node_id)],
          outcome |-> "ok"]

\* a faulty variant: the adjacency list of the node is reset on every add_node
AddNodeResetsAdjacency(S, node) ==
    IF Len(S.nodes) >= MAX_NODES /\ ~DictHas(S.nodes, node.node_id)
    THEN [store |-> S, outcome |-> "ConstraintViolationError"]
    ELSE [store |-> [S EXCEPT !.nodes = DictSet(S.nodes, node.node_id, node),
                              !.node_edges = IndexSet(S.node_edges, node.node_id, <<>>)],
          outcome |-> "ok"]

\* GraphStore.add_node
AddNodeOp(S, node) ==
    IF Len(S.nodes) >= MAX_NODES /\ ~DictHas(S.nodes, node.node_id)
    THEN [store |-> S, outcome |-> "ConstraintViolationError"]
    ELSE [store |-> [S EXCEPT !.nodes = DictSet(S.nodes, node.node_id, node),
                              !.node_edges = IndexEnsure(S.node_edges, node.node_id)],
          outcome |-> "ok"]

\* lines 340-351 of add_edge: the edge map entry and the two adjacency appends
InsertEdge(S, edge_id, edge) ==
    LET ne1 == IndexEnsure(S.node_edges, edge.source_node_id)
        ne2 == IndexSet(ne1, edge.source_node_id, Append(ne1[edge.source_node_id], edge_id))
        ne3 == IndexEnsure(ne2, edge.target_node_id)
        ne4 == IndexSet(ne3, edge.target_node_id, Append(ne3[edge.target_node_id], edge_id))
    IN  [S EXCEPT !.edges = DictSet(S.edges, edge_id, edge), !.node_edges = ne4]

\* a faulty variant: the rollback empties the edge map
RollbackClearsEdges(S, edge_id, edge) ==
    LET src == edge.source_node_id
        tgt == edge.target_node_id
        ne1 == IF InSeq(S.node_edges[src], edge_id)
               THEN IndexSet(S.node_edges, src, RemoveFirst(S.node_edges[src], edge_id))
               ELSE S.node_edges
        ne2 == IF InSeq(ne1[tgt], edge_id)
               THEN IndexSet(ne1, tgt, RemoveFirst(ne1[tgt], edge_id))
               ELSE ne1
    IN  [S EXCEPT !.edges = <<>>, !.node_edges = ne2]

\* the except branch of add_edge
RollbackEdge(S, edge_id, edge) ==
    LET src == edge.source_node_id
        tgt == edge.target_node_id
        ne1 == IF InSeq(S.node_edges[src], edge_id)
               THEN IndexSet(S.node_edges, src, RemoveFirst(S.node_edges[src], edge_id))
               ELSE S.node_edges
        ne2 == IF InSeq(ne1[tgt], edge_id)
               THEN IndexSet(ne1, tgt, RemoveFirst(ne1[tgt], edge_id))
               ELSE ne1
    IN  [S EXCEPT !.edges = DictDel(S.edges, edge_id), !.node_edges = ne2]

NoId == ""

\* a faulty variant: the id is generated before the endpoints are looked up
AddEdgeIdFirst(S, edge) ==
    LET gen == GenerateEdgeId(S, edge.source_node_id, edge.target_node_id,
                              edge.relationship_type)
        inserted == InsertEdge(gen.store, gen.id, edge)
    IN  IF ~DictHas(S.nodes, edge.source_node_id) \/ ~DictHas(S.nodes, edge.target_node_id)
        THEN [store |-> gen.store, outcome |-> "ValueError", id |-> NoId]
        ELSE IF ValidateConstraints(inserted) = "ok"
        THEN [store |-> inserted, outcome |-> "ok", id |-> gen.id]
        ELSE [store |-> RollbackEdge(inserted, gen.id, edge),
              outcome |-> "ConstraintViolationError", id |-> NoId]

\* a faulty variant: a missing endpoint is created as a placeholder node
AddEdgeCreatesEndpoints(S, edge) ==
    LET Placeholder(T, node_id) ==
            IF DictHas(T.nodes, node_id) THEN T
            ELSE [T EXCEPT !.nodes = DictSet(T.nodes, node_id,
                                             Node(node_id, node_id, "Unknown", <<>>, None, FALSE)),
                           !.node_edges = IndexEnsure(T.node_edges, node_id)]
        S2 == Placeholder(Placeholder(S, edge.source_node_id), edge.target_node_id)
        gen == GenerateEdgeId(S2, edge.source_node_id, edge.target_node_id,
                              edge.relationship_type)
        inserted == InsertEdge(gen.store, gen.id, edge)
    IN  IF ValidateConstraints(inserted) = "ok"
        THEN [store |-> inserted, outcome |-> "ok", id |-> gen.id]
        ELSE [store |-> RollbackEdge(inserted, gen.id, edge),
              outcome |-> "ConstraintViolationError", id |-> NoId]

\* GraphStore.add_edge
AddEdgeOp(S, edge) ==
    IF ~DictHas(S.nodes, edge.source_node_id) THEN
        [store |-> S, outcome |-> "ValueError", id |-> NoId]
    ELSE IF ~DictHas(S.nodes, edge.target_node_id) THEN
        [store |-> S, outcome |-> "ValueError", id |-> NoId]
    ELSE
        LET gen == GenerateEdgeId(S, edge.source_node_id, edge.target_node_id,
                                  edge.relationship_type)
            inserted == InsertEdge(gen.store, gen.id, edge)
        IN  IF ValidateConstraints(inserted) = "ok"
            THEN [store |-> inserted, outcome |-> "ok", id |-> gen.id]
            ELSE [store |-> RollbackEdge(inserted, gen.id, edge),
                  outcome |-> "ConstraintViolationError", id |-> NoId]

\* the histogram {key(x): number of values with that key} of get_statistics
Histogram(d, field) ==
    [t \in {d[i].v[field] : i \in 1..Len(d)} |->
        Cardinality({i \in 1..Len(d) : d[i].v[field] = t})]

\* a faulty variant: the seed count is the size of SEED_ENTITIES
GetStatisticsFixedSeedCount(S) ==
    [num_nodes |-> Len(S.nodes),
     num_seed_nodes |-> Len(SEED_ENTITIES),
     num_edges |-> Len(S.edges),
     max_depth |-> CalculateMaxDepth(S),
     max_nodes_constraint |-> MAX_NODES,
     max_depth_constraint |-> MAX_DEPTH,
     min_pubmed_citations_constraint |-> MIN_PUBMED_CITATIONS,
     entity_types |-> Histogram(S.nodes, "entity_type"),
     relationship_types |-> Histogram(S.edges, "relationship_type")]

\* GraphStore.get_statistics
GetStatistics(S) ==
    [num_nodes |-> Len(S.nodes),
     num_seed_nodes |-> Cardinality({i \in 1..Len(S.nodes) : S.nodes[i].v.is_seed}),
     num_edges |-> Len(S.edges),
     max_depth |-> CalculateMaxDepth(S),
     max_nodes_constraint |-> MAX_NODES,
     max_depth_constraint |-> MAX_DEPTH,
     min_pubmed_citations_constraint |-> MIN_PUBMED_CITATIONS,
     entity_types |-> Histogram(S.nodes, "entity_type"),
     relationship_types |-> Histogram(S.edges, "relationship_type")]

\* GraphStore.to_dict
ToDict(S) ==
    [seed_entities |-> SEED_ENTITIES,
     nodes |-> [i \in 1..Len(S.nodes) |-> [k |-> S.nodes[i].k, v |-> NodeToDict(S.nodes[i].v)]],
     edges |-> [i \in 1..Len(S.edges) |-> [k |-> S.edges[i].k, v |-> EdgeToDict(S.edges[i].v)]],
     statistics |-> GetStatistics(S)]

\* the else branch of the node loop of from_dict: a record flagged is_seed
UpdateSeedNode(S, nid, node_data) ==
    IF ~DictHas(S.nodes, nid) THEN S
    ELSE LET n0 == DictGet(S.nodes, nid)
             n1 == IF "ontology_ref" \in DOMAIN node_data
                   THEN [n0 EXCEPT !.ontology_ref = node_data.ontology_ref] ELSE n0
             n2 == IF "synonyms" \in DOMAIN node_data
                   THEN [n1 EXCEPT !.synonyms = node_data.synonyms] ELSE n1
         IN  [S EXCEPT !.nodes = DictSet(S.nodes, nid, n2)]

\* the node loop of from_dict, from item i on: the store and how the loop ended
RECURSIVE LoadNodes(_, _, _)
LoadNodes(S, items, i) ==
    IF i > Len(items) THEN [store |-> S, outcome |-> "ok"]
    ELSE LET nid == items[i].k
             node_data == items[i].v
         IN  IF ~GetOr(node_data, "is_seed", FALSE)
             THEN LET node == NodeFromDict(node_data)
                  IN  IF NodePostInit(node) # "ok"
                      THEN [store |-> S, outcome |-> NodePostInit(node)]
                      ELSE LET added == AddNodeOp(S, node)
                           IN  IF added.outcome # "ok"
                               THEN [store |-> added.store, outcome |-> added.outcome]
                               ELSE LoadNodes(added.store, items, i + 1)
             ELSE LoadNodes(UpdateSeedNode(S, nid, node_data), items, i + 1)

\* the edge loop of from_dict, from item i on
RECURSIVE LoadEdges(_, _, _)
LoadEdges(S, items, i) ==
    IF i > Len(items) THEN [store |-> S, outcome |-> "ok"]
    ELSE LET eid == items[i].k
             edge == EdgeFromDict(items[i].v)
         IN  IF EdgePostInit(edge) # "ok"
             THEN [store |-> S, outcome |-> EdgePostInit(edge)]
             ELSE LET ne1 == IndexEnsure(S.node_edges, edge.source_node_id)
                      ne2 == IndexEnsure(ne1, edge.target_node_id)
                      ne3 == IndexSet(ne2, edge.source_node_id,
                                      Append(ne2[edge.source_node_id], eid))
                      ne4 == IndexSet(ne3, edge.target_node_id,
                                      Append(ne3[edge.target_node_id], eid))
                  IN  LoadEdges([S EXCEPT !.edges = DictSet(S.edges, eid, edge),
                                          !.node_edges = ne4],
                                items, i + 1)

\* a faulty variant: the seed entities are not reinitialized after the clear
FromDictNoSeeds(S, data) ==
    LET cleared == [S EXCEPT !.nodes = <<>>, !.edges = <<>>, !.node_edges = <<>>,
                             !.edge_counter = 0]
        loaded == LoadNodes(cleared, GetOr(data, "nodes", <<>>), 1)
    IN  IF loaded.outcome # "ok" THEN loaded
        ELSE LoadEdges(loaded.store, GetOr(data, "edges", <<>>), 1)

\* a faulty variant: self.edges.clear() is missing
FromDictKeepsEdges(S, data) ==
    LET cleared == [S EXCEPT !.nodes = <<>>, !.node_edges = <<>>, !.edge_counter = 0]
        seeded == InitializeSeedEntities(cleared)
        loaded == LoadNodes(seeded, GetOr(data, "nodes", <<>>), 1)
    IN  IF loaded.outcome # "ok" THEN loaded
        ELSE LoadEdges(loaded.store, GetOr(data, "edges", <<>>), 1)

\* a faulty variant: the loaded graph is validated before from_dict returns
FromDictValidates(S, data) ==
    LET cleared == [S EXCEPT !.nodes = <<>>, !.edges = <<>>, !.node_edges = <<>>,
                             !.edge_counter = 0]
        seeded == InitializeSeedEntities(cleared)
        loaded == LoadNodes(seeded, GetOr(data, "nodes", <<>>), 1)
        edged == LoadEdges(loaded.store, GetOr(data, "edges", <<>>), 1)
    IN  IF loaded.outcome # "ok" THEN loaded
        ELSE IF edged.outcome # "ok" THEN edged
        ELSE [store |-> edged.store, outcome |-> ValidateConstraints(edged.store)]

\* a faulty variant: the edge loop fills the edge map but not the adjacency lists
FromDictNoAdjacency(S, data) ==
    LET cleared == [S EXCEPT !.nodes = <<>>, !.edges = <<>>, !.node_edges = <<>>,
                             !.edge_counter = 0]
        seeded == InitializeSeedEntities(cleared)
        loaded == LoadNodes(seeded, GetOr(data, "nodes", <<>>), 1)
        edged == LoadEdges(loaded.store, GetOr(data, "edges", <<>>), 1)
    IN  IF loaded.outcome # "ok" THEN loaded
        ELSE [store |-> [edged.store EXCEPT !.node_edges = loaded.store.node_edges],
              outcome |-> edged.outcome]

\* GraphStore.from_dict: the store and how the call ended
FromDict(S, data) ==
    LET cleared == [S EXCEPT !.nodes = <<>>, !.edges = <<>>, !.node_edges = <<>>,
                             !.edge_counter = 0]
        seeded == InitializeSeedEntities(cleared)
        loaded == LoadNodes(seeded, GetOr(data, "nodes", <<>>), 1)
    IN  IF loaded.outcome # "ok" THEN loaded
        ELSE LoadEdges(loaded.store, GetOr(data, "edges", <<>>), 1)

(* ---------------- the read operations ---------------- *)
\* GraphStore.get_node
GetNodeOp(S, node_id) ==
    [store |-> S,
     value |-> IF DictHas(S.nodes, node_id) THEN DictGet(S.nodes, node_id) ELSE None]

\* GraphStore.get_seed_nodes
GetSeedNodesOp(S) ==
    LET flagged == SelectSeq(S.nodes, LAMBDA p : p.v.is_seed)
    IN  [store |-> S, value |-> [i \in 1..Len(flagged) |-> flagged[i].v]]

\* GraphStore.get_edge
GetEdgeOp(S, edge_id) ==
    [store |-> S,
     value |-> IF DictHas(S.edges, edge_id) THEN DictGet(S.edges, edge_id) ELSE None]

\* the loop of get_node_edges from position i on; a listed Edge object is
\* written as the entry of the edge map it was read from
RECURSIVE NodeEdgesFrom(_, _, _, _, _)
NodeEdgesFrom(S, node_id, direction, edge_ids, i) ==
    IF i > Len(edge_ids) THEN <<>>
    ELSE LET edge_id == edge_ids[i]
             rest == NodeEdgesFrom(S, node_id, direction, edge_ids, i + 1)
         IN  IF ~DictHas(S.edges, edge_id) THEN rest
             ELSE LET edge == DictGet(S.edges, edge_id)
                      item == <<[k |-> edge_id, v |-> edge]>>
                  IN  IF direction = "outgoing" /\ edge.source_node_id = node_id
                      THEN item \o rest
                      ELSE IF direction = "incoming" /\ edge.target_node_id = node_id
                      THEN item \o rest
                      ELSE IF direction = "both" THEN item \o rest
                      ELSE rest

\* a faulty variant: the adjacency list is looked up with setdefault
GetNodeEdgesSetDefault(S, node_id, direction) ==
    LET ne == IndexEnsure(S.node_edges, node_id)
    IN  [store |-> [S EXCEPT !.node_edges = ne],
         value |-> NodeEdgesFrom(S, node_id, direction, ne[node_id], 1)]

\* GraphStore.get_node_edges
GetNodeEdgesOp(S, node_id, direction) ==
    LET edge_ids == IF node_id \in DOMAIN S.node_edges THEN S.node_edges[node_id] ELSE <<>>
    IN  [store |-> S, value |-> NodeEdgesFrom(S, node_id, direction, edge_ids, 1)]

\* GraphStore.get_neighbors: the returned list is built from a set of ids, so
\* its order is unspecified and its elements are distinct; value is its elements
GetNeighborsOp(S, node_id, direction) ==
    LET got == GetNodeEdgesOp(S, node_id, direction)
        OtherEnd(edge) ==
            IF direction = "outgoing" THEN edge.target_node_id
            ELSE IF direction = "incoming" THEN edge.source_node_id
            ELSE IF edge.source_node_id = node_id THEN edge.target_node_id
            ELSE edge.source_node_id
        neighbor_ids == {OtherEnd(got.value[i].v) : i \in 1..Len(got.value)}
    IN  [store |-> got.store,
         value |-> {DictGet(got.store.nodes, nid) :
                       nid \in {x \in neighbor_ids : DictHas(got.store.nodes, x)}}]

\* GraphStore.get_statistics as a call
GetStatisticsOp(S) == [store |-> S, value |-> GetStatistics(S)]

\* GraphStore.to_dict as a call
ToDictOp(S) == [store |-> S, value |-> ToDict(S)]

(* ---------------- the calls made on the store ---------------- *)
Result(op, outcome, id) == [op |-> op, outcome |-> outcome, id |-> id]

SetStore(S) ==
    /\ nodes' = S.nodes
    /\ edges' = S.edges
    /\ node_edges' = S.node_edges
    /\ edge_counter' = S.edge_counter

Init ==
    /\ nodes = NewStore.nodes
    /\ edges = NewStore.edges
    /\ node_edges = NewStore.node_edges
    /\ edge_counter = NewStore.edge_counter
    /\ result = Result("init", "ok", NoId)
    /\ returned = {}
    /\ issued = 0

\* graph.add_node(Node(...)): a failed construction never reaches the store
AddNode(n) ==
    /\ IF NodePostInit(n) # "ok"
       THEN /\ UNCHANGED <<nodes, edges, node_edges, edge_counter>>
            /\ result' = Result("Node", NodePostInit(n), NoId)
       ELSE /\ SetStore(AddNodeOp(Store, n).store)
            /\ result' = Result("add_node", AddNodeOp(Store, n).outcome, NoId)
    /\ UNCHANGED <<returned, issued>>

\* graph.add_edge(Edge(...)): a failed construction never reaches the store
AddEdge(e) ==
    /\ edge_counter < MaxEdgeCounter
    /\ issued < MaxIssued
    /\ IF EdgePostInit(e) # "ok"
       THEN /\ UNCHANGED <<nodes, edges, node_edges, edge_counter, returned, issued>>
            /\ result' = Result("Edge", EdgePostInit(e), NoId)
       ELSE LET r == AddEdgeOp(Store, e)
            IN  /\ SetStore(r.store)
                /\ result' = Result("add_edge", r.outcome, r.id)
                /\ returned' = IF r.outcome = "ok" THEN returned \cup {r.id} ELSE returned
                /\ issued' = issued + (r.store.edge_counter - edge_counter)

\* graph.validate_with_umls(node_id, umls_cui)
ValidateWithUmls(node_id, umls_cui) ==
    LET r == ValidateWithUmlsOp(Store, node_id, umls_cui)
    IN  /\ SetStore(r.store)
        /\ result' = Result("validate_with_umls", r.outcome, NoId)
        /\ UNCHANGED <<returned, issued>>

\* graph.from_dict(data)
Import(data) ==
    LET r == FromDict(Store, data)
    IN  /\ SetStore(r.store)
        /\ result' = Result("from_dict", r.outcome, NoId)
        /\ UNCHANGED <<returned, issued>>

\* save_to_file then load_from_file: the store loads its own export
SaveLoad == Import(ToDict(Store))

\* a read operation called by a client: r is what the operation gave
Read(op, r) ==
    /\ SetStore(r.store)
    /\ result' = Result(op, "ok", NoId)
    /\ UNCHANGED <<returned, issued>>

(* ---------------- the requests made of the store ---------------- *)
A == "intracranial_aneurysm_rupture"
B == "inflammation"
C == "hemodynamics"
X == "wall_shear_stress"

TwoCitations == <<Evidence("12345678", "s1"), Evidence("23456789", "s2")>>
SameCitationTwice == <<Evidence("12345678", "s1"), Evidence("12345678", "s2")>>
OneCitation == <<Evidence("11111111", "Only one citation.")>>

\* X as an ordinary node, and X flagged is_seed by the caller
PlainX == Node(X, "Wall Shear Stress", "Biomechanical", <<>>, None, FALSE)
SeedX == Node(X, "Wall Shear Stress", "Biomechanical", <<>>, None, TRUE)

\* the chain X -> A -> B -> C
ChainEdges ==
    { Edge(X, A, "INFLUENCES", TwoCitations, 85),
      Edge(A, B, "INFLUENCES", TwoCitations, 85),
      Edge(B, C, "INFLUENCES", TwoCitations, 85) }

\* constructor arguments that Edge.__post_init__ refuses
BadEdges ==
    { Edge(A, C, "INFLUENCES", OneCitation, 50),
      Edge(A, C, "INFLUENCES", <<>>, 0),
      Edge(A, A, "INFLUENCES", TwoCitations, 85),
      Edge("", B, "INFLUENCES", TwoCitations, 85),
      Edge(A, "", "INFLUENCES", TwoCitations, 85),
      Edge(A, B, "", TwoCitations, 85),
      Edge(A, B, "INFLUENCES", TwoCitations, 101),
      Edge(A, B, "INFLUENCES", TwoCitations, 0 - 1) }

(* ---------------- Spec: add_node, add_edge, validate_with_umls ---------------- *)
NodeInputs == { PlainX, SeedX, Node(X, "", "Biomechanical", <<>>, None, FALSE) }

EdgeInputs ==
    ChainEdges \cup BadEdges \cup
    { Edge(A, B, "INFLUENCES", SameCitationTwice, 100),
      Edge(C, X, "MECHANISTIC_LINK", TwoCitations, 0) }

UmlsNodeIds == {A, X}

UmlsCuis == {"C0000001"}

Next ==
    \/ \E n \in NodeInputs : AddNode(n)
    \/ \E e \in EdgeInputs : AddEdge(e)
    \/ \E node_id \in UmlsNodeIds, umls_cui \in UmlsCuis : ValidateWithUmls(node_id, umls_cui)

Spec == Init /\ [][Next]_vars

(* ---------------- SpecLoad: the same calls, and save / load ---------------- *)
LoadNodeInputs == { PlainX, SeedX }

LoadEdgeInputs == ChainEdges \cup BadEdges

LoadUmlsNodeIds == {B}

NextLoad ==
    \/ \E n \in LoadNodeInputs : AddNode(n)
    \/ \E e \in LoadEdgeInputs : AddEdge(e)
    \/ \E node_id \in LoadUmlsNodeIds, umls_cui \in UmlsCuis : ValidateWithUmls(node_id, umls_cui)
    \/ SaveLoad

SpecLoad == Init /\ [][NextLoad]_vars

(* ---------------- SpecCap: a store filled to MAX_NODES ---------------- *)
\* the node ids offered beyond the seeds: ExtraNodes more than the store can hold
NumPadIds == MAX_NODES - Len(SEED_ENTITIES) + ExtraNodes

PadId(i) == "pad_" \o ToString(i)

PadNode(i) == Node(PadId(i), "Pad", "Gene", <<>>, None, FALSE)

\* a snapshot file naming the first k padding nodes and no edges
PadSnapshot(k) ==
    [nodes |-> [i \in 1..k |-> [k |-> PadId(i), v |-> NodeToDict(PadNode(i))]],
     edges |-> <<>>]

CapEdgeInputs == { Edge(PadId(1), A, "INFLUENCES", TwoCitations, 85) }

\* the padding nodes are interchangeable: callers add them in index order
NextCap ==
    \/ \E i \in 1..NumPadIds :
          /\ i = 1 \/ DictHas(nodes, PadId(i - 1))
          /\ AddNode(PadNode(i))
    \/ \E e \in CapEdgeInputs : AddEdge(e)
    \/ \E umls_cui \in UmlsCuis : ValidateWithUmls(A, umls_cui)
    \/ \E data \in {ToDict(Store), PadSnapshot(NumPadIds)} : Import(data)

SpecCap == Init /\ [][NextCap]_vars

(* ---------------- SpecEdit: snapshot files written by an external editor ---------------- *)
\* a snapshot whose edges put X three hops from seed A
DeepSnapshot ==
    [nodes |-> <<[k |-> X, v |-> NodeToDict(PlainX)]>>,
     edges |-> <<[k |-> EdgeIdString(1, A, B, "INFLUENCES"),
                  v |-> EdgeToDict(Edge(A, B, "INFLUENCES", TwoCitations, 85))],
                 [k |-> EdgeIdString(2, B, C, "INFLUENCES"),
                  v |-> EdgeToDict(Edge(B, C, "INFLUENCES", TwoCitations, 85))],
                 [k |-> EdgeIdString(3, C, X, "INFLUENCES"),
                  v |-> EdgeToDict(Edge(C, X, "INFLUENCES", TwoCitations, 85))]>>]

\* a snapshot within the limits: X one hop from seed A
ShallowSnapshot ==
    [nodes |-> <<[k |-> X, v |-> NodeToDict(PlainX)]>>,
     edges |-> <<[k |-> EdgeIdString(1, A, X, "INFLUENCES"),
                  v |-> EdgeToDict(Edge(A, X, "INFLUENCES", TwoCitations, 85))]>>]

\* the last of these names more nodes than the store can hold
EditSnapshots == {DeepSnapshot, ShallowSnapshot, PadSnapshot(NumPadIds)}

EditNodeInputs == {PlainX, PadNode(1), PadNode(NumPadIds)}

EditEdgeInputs ==
    { Edge(A, B, "INFLUENCES", TwoCitations, 85),
      Edge(B, A, "INFLUENCES", TwoCitations, 85) }

NextEdit ==
    \/ \E n \in EditNodeInputs : AddNode(n)
    \/ \E e \in EditEdgeInputs : AddEdge(e)
    \/ \E data \in EditSnapshots : Import(data)

SpecEdit == Init /\ [][NextEdit]_vars

(* ---------------- SpecBadFile: SpecEdit, and snapshot files with bad records ---------------- *)
\* an edge record whose target is not a node of the snapshot
DanglingSnapshot ==
    [nodes |-> <<>>,
     edges |-> <<[k |-> EdgeIdString(9, A, "ghost", "INFLUENCES"),
                  v |-> EdgeToDict(Edge(A, "ghost", "INFLUENCES", TwoCitations, 85))]>>]

\* a valid edge record followed by one with a single evidence item
OneCitationSnapshot ==
    [nodes |-> <<[k |-> X, v |-> NodeToDict(PlainX)]>>,
     edges |-> <<[k |-> EdgeIdString(1, A, X, "INFLUENCES"),
                  v |-> EdgeToDict(Edge(A, X, "INFLUENCES", TwoCitations, 85))],
                 [k |-> EdgeIdString(2, A, C, "INFLUENCES"),
                  v |-> EdgeToDict(Edge(A, C, "INFLUENCES", OneCitation, 50))]>>]

\* a self-loop edge record
SelfLoopSnapshot ==
    [nodes |-> <<>>,
     edges |-> <<[k |-> EdgeIdString(1, A, A, "INFLUENCES"),
                  v |-> EdgeToDict(Edge(A, A, "INFLUENCES", TwoCitations, 85))]>>]

BadSnapshots == {DanglingSnapshot, OneCitationSnapshot, SelfLoopSnapshot}

NextBadFile ==
    \/ \E n \in EditNodeInputs : AddNode(n)
    \/ \E e \in EditEdgeInputs : AddEdge(e)
    \/ \E data \in EditSnapshots \cup BadSnapshots : Import(data)

SpecBadFile == Init /\ [][NextBadFile]_vars

(* ---------------- SpecOrder: edges among the seeds and X, in every order ---------------- *)
OrderEdgeInputs ==
    { Edge(X, A, "INFLUENCES", TwoCitations, 85),
      Edge(A, B, "INFLUENCES", TwoCitations, 85),
      Edge(B, A, "INFLUENCES", TwoCitations, 85),
      Edge(B, C, "INFLUENCES", TwoCitations, 85),
      Edge(C, X, "MECHANISTIC_LINK", TwoCitations, 0) }

NextOrder ==
    \/ AddNode(PlainX)
    \/ \E e \in OrderEdgeInputs : AddEdge(e)

SpecOrder == Init /\ [][NextOrder]_vars

(* ---------------- SpecRead: the calls of SpecEdit, and the read operations ---------------- *)
Directions == {"outgoing", "incoming", "both"}

ReadNodeIds == {A, B, X, "unknown_node"}

ReadEdgeIds == {EdgeIdString(1, A, B, "INFLUENCES"), "unknown_edge"}

ReadOps ==
    {"get_node", "get_seed_nodes", "get_edge", "get_node_edges", "get_neighbors",
     "get_statistics", "to_dict"}

GetNode == \E node_id \in ReadNodeIds : Read("get_node", GetNodeOp(Store, node_id))

GetSeedNodes == Read("get_seed_nodes", GetSeedNodesOp(Store))

GetEdge == \E edge_id \in ReadEdgeIds : Read("get_edge", GetEdgeOp(Store, edge_id))

GetNodeEdges ==
    \E node_id \in ReadNodeIds, direction \in Directions :
        Read("get_node_edges", GetNodeEdgesOp(Store, node_id, direction))

GetNeighbors ==
    \E node_id \in ReadNodeIds, direction \in Directions :
        Read("get_neighbors", GetNeighborsOp(Store, node_id, direction))

GetStatisticsCall == Read("get_statistics", GetStatisticsOp(Store))

Export == Read("to_dict", ToDictOp(Store))

NextRead ==
    \/ \E n \in EditNodeInputs : AddNode(n)
    \/ \E e \in EditEdgeInputs : AddEdge(e)
    \/ \E data \in EditSnapshots : Import(data)
    \/ GetNode
    \/ GetSeedNodes
    \/ GetEdge
    \/ GetNodeEdges
    \/ GetNeighbors
    \/ GetStatisticsCall
    \/ Export

SpecRead == Init /\ [][NextRead]_vars

(* ---------------- SpecSeedless: callers re-add the seed ids as ordinary nodes ---------------- *)
\* seed i given again by a caller, with the is_seed default of Node
PlainSeed(i) ==
    Node(SEED_ENTITIES[i].k, SEED_ENTITIES[i].v.label, SEED_ENTITIES[i].v.entity_type,
         <<>>, None, FALSE)

SeedlessNodeInputs == {PlainSeed(i) : i \in 1..Len(SEED_ENTITIES)} \cup {PlainX}

\* the chain A -> B -> C -> X
SeedlessEdgeInputs ==
    { Edge(A, B, "INFLUENCES", TwoCitations, 85),
      Edge(B, C, "INFLUENCES", TwoCitations, 85),
      Edge(C, X, "MECHANISTIC_LINK", TwoCitations, 0) }

NextSeedless ==
    \/ \E n \in SeedlessNodeInputs : AddNode(n)
    \/ \E e \in SeedlessEdgeInputs : AddEdge(e)

SpecSeedless == Init /\ [][NextSeedless]_vars

(* ---------------- reference definitions used by the properties ---------------- *)
\* the targets of the stored edges that leave n
Successors(S, n) ==
    {S.edges[i].v.target_node_id :
        i \in {j \in 1..Len(S.edges) : S.edges[j].v.source_node_id = n}}

\* the largest shortest-path hop count from the nodes already visited, whose
\* outermost layer is frontier at distance d, following outgoing edges only
RECURSIVE HopsFrom(_, _, _, _)
HopsFrom(S, frontier, visited, d) ==
    LET next == UNION {Successors(S, n) : n \in frontier} \ visited
    IN  IF next = {} THEN d ELSE HopsFrom(S, next, visited \cup next, d + 1)

MaxHops(S, n) == HopsFrom(S, {n}, {n}, 0)

SeedFlagged(S) == {k \in DictKeySet(S.nodes) : DictGet(S.nodes, k).is_seed}

StoreAfter == [nodes |-> nodes', edges |-> edges', node_edges |-> node_edges',
               edge_counter |-> edge_counter']

\* an edge breaks one of the local invariants of the Edge type
LocallyInvalid(e) ==
    \/ e.source_node_id = ""
    \/ e.target_node_id = ""
    \/ e.relationship_type = ""
    \/ e.source_node_id = e.target_node_id
    \/ e.confidence < 0
    \/ e.confidence > 100
    \/ Len(e.evidence) < MIN_PUBMED_CITATIONS

AllEdgeInputs ==
    EdgeInputs \cup LoadEdgeInputs \cup CapEdgeInputs \cup SeedlessEdgeInputs
        \cup EditEdgeInputs

AllNodeInputs ==
    NodeInputs \cup LoadNodeInputs \cup SeedlessNodeInputs
        \cup {PadNode(i) : i \in 1..NumPadIds}

\* an edge breaks one of the field checks of the Edge type
FieldInvalid(e) ==
    \/ e.source_node_id = ""
    \/ e.target_node_id = ""
    \/ e.relationship_type = ""
    \/ e.source_node_id = e.target_node_id
    \/ e.confidence < 0
    \/ e.confidence > 100

\* the graph of S with one more edge
GraphWith(S, e) == [S EXCEPT !.edges = Append(S.edges, [k |-> NoId, v |-> e])]

\* the largest hop count from a node flagged is_seed, 0 when none is flagged
SeedDepth(S) ==
    LET ds == {MaxHops(S, k) : k \in SeedFlagged(S)}
    IN  IF ds = {} THEN 0 ELSE CHOOSE d \in ds : \A x \in ds : x <= d

\* the graph a snapshot describes: the fixed seeds and the edge records
SnapshotGraph(data) ==
    [NewStore EXCEPT !.edges =
        [i \in 1..Len(data.edges) |->
            [k |-> data.edges[i].k, v |-> EdgeFromDict(data.edges[i].v)]]]

\* the snapshot names more distinct node ids than MAX_NODES, the seeds included
Overfull(data) ==
    Cardinality(DictKeySet(NewStore.nodes) \cup DictKeySet(data.nodes)) > MAX_NODES

\* the sum of the counts of a histogram
RECURSIVE SumCounts(_, _)
SumCounts(h, keys) ==
    IF keys = {} THEN 0
    ELSE LET t == CHOOSE x \in keys : TRUE
         IN  h[t] + SumCounts(h, keys \ {t})

\* the stored edges without their ids
EdgeValues(S) == {S.edges[i].v : i \in 1..Len(S.edges)}

\* add_edge(e1) then add_edge(e2) on S: the two outcomes and the final store
AddBoth(S, e1, e2) ==
    LET first == AddEdgeOp(S, e1)
        second == AddEdgeOp(first.store, e2)
    IN  [first |-> first.outcome, second |-> second.outcome, store |-> second.store]

\* the well-formed edge inputs whose endpoints are nodes of S
KnownEdgeInputs(S) ==
    {e \in AllEdgeInputs :
        /\ ~LocallyInvalid(e)
        /\ DictHas(S.nodes, e.source_node_id)
        /\ DictHas(S.nodes, e.target_node_id)}

(* ---------------- the properties ---------------- *)

\* C1: whenever add_edge fails with a constraint violation, the node map, the
\* edge map, every adjacency list and get_statistics() are what they were
\* immediately before the call.
C1_AtomicRollback ==
    [][(result'.op = "add_edge" /\ result'.outcome = "ConstraintViolationError")
        => /\ DictMap(nodes') = DictMap(nodes)
           /\ DictMap(edges') = DictMap(edges)
           /\ node_edges' = node_edges
           /\ GetStatistics(StoreAfter) = GetStatistics(Store)]_vars

\* C2: in every state reached by add_node, add_edge and validate_with_umls,
\* every node flagged is_seed is at most MAX_DEPTH hops (outgoing edges only)
\* from every node it reaches.
C2_DepthInvariant ==
    \A k \in SeedFlagged(Store) : MaxHops(Store, k) <= MAX_DEPTH

\* C3: the number of distinct node ids is at most MAX_NODES after every call,
\* failed calls included.
C3_NodeBound == Cardinality(DictKeySet(nodes)) <= MAX_NODES

\* C3 witness: add_node was refused for capacity and the store holds MAX_NODES ids
C3_Witness ==
    /\ result = Result("add_node", "ConstraintViolationError", NoId)
    /\ Cardinality(DictKeySet(nodes)) = MAX_NODES

\* C4: every stored edge satisfies the local invariants of Edge, and a call
\* whose Edge breaks one fails at construction and leaves the store untouched.
C4_EdgeLocalInvariants ==
    /\ [](\A i \in 1..Len(edges) : ~LocallyInvalid(edges[i].v))
    /\ [][\A e \in AllEdgeInputs :
            (LocallyInvalid(e) /\ AddEdge(e))
                => /\ result'.op = "Edge"
                   /\ result'.outcome # "ok"
                   /\ UNCHANGED <<nodes, edges, node_edges, edge_counter>>]_vars

\* C4 witness: edges are stored, some of them loaded by from_dict, and the last
\* call was refused when its Edge was constructed
C4_Witness ==
    /\ result.op = "Edge"
    /\ result.outcome # "ok"
    /\ Len(edges) >= 2
    /\ edge_counter < Len(edges)

\* C5: an Edge with MIN_PUBMED_CITATIONS or more evidence items but fewer
\* distinct pubmed ids is rejected at construction.
C5_DistinctCitations ==
    [][\A e \in AllEdgeInputs :
        (/\ Len(e.evidence) >= MIN_PUBMED_CITATIONS
         /\ Cardinality(GetPubmedIds(e)) < MIN_PUBMED_CITATIONS
         /\ AddEdge(e))
            => (result'.op = "Edge" /\ result'.outcome # "ok")]_vars

\* C6: every successful add_edge returns an id that is not a key of the edge
\* map at the time of the call and that no earlier add_edge returned.
C6_EdgeIdsUnique ==
    [][(result'.op = "add_edge" /\ result'.outcome = "ok")
        => (~DictHas(edges, result'.id) /\ result'.id \notin returned)]_vars

\* C7: loading the export of a store reached by add_node, add_edge and
\* validate_with_umls gives the same node map, edge map and statistics.
C7_RoundTrip ==
    LET loaded == FromDict(NewStore, ToDict(Store))
    IN  /\ loaded.outcome = "ok"
        /\ DictMap(loaded.store.nodes) = DictMap(nodes)
        /\ DictMap(loaded.store.edges) = DictMap(edges)
        /\ GetStatistics(loaded.store) = GetStatistics(Store)

\* C8: no call changes the is_seed flag the store holds for a node id, and no
\* node that appears after initialization is flagged is_seed.
C8_SeedFlagImmutable ==
    [][/\ \A k \in DictKeySet(nodes) \cap DictKeySet(nodes') :
            DictGet(nodes', k).is_seed = DictGet(nodes, k).is_seed
       /\ \A k \in DictKeySet(nodes') \ DictKeySet(nodes) :
            ~DictGet(nodes', k).is_seed]_vars

\* C9: each seed id of SEED_ENTITIES is a key of the node map in every state.
C9_SeedsPresent ==
    \A i \in 1..Len(SEED_ENTITIES) : DictHas(nodes, SEED_ENTITIES[i].k)

\* C9 witness: from_dict has failed part-way, after replacing the node map
C9_Witness ==
    /\ result.op = "from_dict"
    /\ result.outcome # "ok"
    /\ Len(nodes) > Len(SEED_ENTITIES)
    /\ \A i \in 1..Len(SEED_ENTITIES) : DictHas(nodes, SEED_ENTITIES[i].k)

\* C10: add_edge with an endpoint that is not a key of the node map fails with
\* ValueError and changes neither the node map, the edge map, the adjacency
\* index nor the edge sequence counter.
C10_ReferenceCheck ==
    [][\A e \in AllEdgeInputs :
        (/\ ~LocallyInvalid(e)
         /\ ~DictHas(nodes, e.source_node_id) \/ ~DictHas(nodes, e.target_node_id)
         /\ AddEdge(e))
            => /\ result' = Result("add_edge", "ValueError", NoId)
               /\ UNCHANGED <<nodes, edges, node_edges, edge_counter>>]_vars

\* C10 witness: add_edge was refused for an unknown endpoint after edges were stored
C10_Witness ==
    /\ result = Result("add_edge", "ValueError", NoId)
    /\ Len(edges) >= 1
    /\ edge_counter = Len(edges)

\* C11: add_node is refused with a constraint violation exactly when the store
\* holds MAX_NODES ids and the id is new, and then nothing changes; otherwise
\* it succeeds, maps the id to the given node, gives the id an empty adjacency
\* list if it had none, and leaves every other node, every existing adjacency
\* list and the edge map as they were.
C11_AddNodeCapacityRule ==
    [][\A n \in AllNodeInputs :
        (NodePostInit(n) = "ok" /\ AddNode(n))
            => IF Len(nodes) = MAX_NODES /\ ~DictHas(nodes, n.node_id)
               THEN /\ result' = Result("add_node", "ConstraintViolationError", NoId)
                    /\ UNCHANGED <<nodes, edges, node_edges, edge_counter>>
                    /\ Len(nodes') = MAX_NODES
               ELSE /\ result' = Result("add_node", "ok", NoId)
                    /\ \A i \in 1..Len(nodes) :
                          nodes'[i] = IF nodes[i].k = n.node_id
                                      THEN [k |-> n.node_id, v |-> n] ELSE nodes[i]
                    /\ IF DictHas(nodes, n.node_id)
                       THEN Len(nodes') = Len(nodes)
                       ELSE nodes' = Append(nodes, [k |-> n.node_id, v |-> n])
                    /\ node_edges' =
                          [x \in DOMAIN node_edges \cup {n.node_id} |->
                              IF x \in DOMAIN node_edges THEN node_edges[x] ELSE <<>>]
                    /\ UNCHANGED <<edges, edge_counter>>]_vars

\* C11 witness: at MAX_NODES ids, add_node has overwritten a node that has a
\* non-empty adjacency list
C11_Witness ==
    /\ result = Result("add_node", "ok", NoId)
    /\ Len(nodes) = MAX_NODES
    /\ PadId(1) \in DOMAIN node_edges
    /\ node_edges[PadId(1)] # <<>>

\* C12 as stated: an Edge with fewer than MIN_PUBMED_CITATIONS evidence items is
\* refused with the input error class, and ConstraintViolationError is the
\* outcome of add_node and add_edge only, for a max-nodes or max-depth violation.
C12_DisjointErrorClasses ==
    [][/\ \A e \in AllEdgeInputs :
            (Len(e.evidence) < MIN_PUBMED_CITATIONS /\ AddEdge(e))
                => result'.outcome = "ValueError"
       /\ result'.outcome = "ConstraintViolationError"
            => result'.op \in {"add_node", "add_edge"}]_vars

\* C12 amended: an Edge that passes the field checks but has fewer than
\* MIN_PUBMED_CITATIONS evidence items is refused at construction with
\* ConstraintViolationError, the class also used for max-nodes and max-depth;
\* an Edge failing a field check is refused with ValueError; and an outcome is
\* ConstraintViolationError only for too few evidence items, for a new node at
\* MAX_NODES, or for an edge that takes a seed beyond MAX_DEPTH.
C12_ErrorClasses ==
    [][/\ \A e \in AllEdgeInputs :
            AddEdge(e)
                => IF FieldInvalid(e)
                   THEN result' = Result("Edge", "ValueError", NoId)
                   ELSE IF Len(e.evidence) < MIN_PUBMED_CITATIONS
                   THEN result' = Result("Edge", "ConstraintViolationError", NoId)
                   ELSE /\ result'.op = "add_edge"
                        /\ result'.outcome = "ConstraintViolationError"
                             => \/ SeedDepth(GraphWith(Store, e)) > MAX_DEPTH
                                \/ Len(nodes) > MAX_NODES
       /\ \A n \in AllNodeInputs :
            (AddNode(n) /\ result'.outcome = "ConstraintViolationError")
                => (Len(nodes) >= MAX_NODES /\ ~DictHas(nodes, n.node_id))
       /\ result'.outcome = "ConstraintViolationError"
            => result'.op \in {"Edge", "add_node", "add_edge"}]_vars

\* C12 witness: with two edges stored, an Edge with too few citations was
\* refused with ConstraintViolationError
C12_Witness ==
    /\ result = Result("Edge", "ConstraintViolationError", NoId)
    /\ Len(edges) = 2
    /\ edge_counter = 2

\* C13: in every reachable state, states produced by from_dict included, a
\* successful add_edge returns a non-empty id, the edge map maps that id to the
\* given edge, there is exactly one more edge and every earlier edge is still
\* stored unchanged, and the id is appended exactly once to the adjacency list
\* of the source and once to that of the target; on a new store one edge
\* between two seeds with two evidence items and confidence 0.85 succeeds and
\* num_edges becomes 1.
C13_AddEdgeSuccess ==
    [][/\ \A e \in AllEdgeInputs :
            (AddEdge(e) /\ result'.op = "add_edge" /\ result'.outcome = "ok")
                => /\ result'.id # NoId
                   /\ DictHas(edges', result'.id)
                   /\ DictGet(edges', result'.id) = e
                   /\ Len(edges') = Len(edges) + 1
                   /\ \A i \in 1..Len(edges) : edges'[i] = edges[i]
                   /\ node_edges'[e.source_node_id] =
                         Append(node_edges[e.source_node_id], result'.id)
                   /\ node_edges'[e.target_node_id] =
                         Append(node_edges[e.target_node_id], result'.id)
       /\ (Store = NewStore /\ AddEdge(Edge(A, B, "INFLUENCES", TwoCitations, 85)))
            => /\ result'.op = "add_edge"
               /\ result'.outcome = "ok"
               /\ GetStatistics(StoreAfter).num_edges = 1]_vars

\* C14: for an edge whose endpoints are both known, add_edge succeeds exactly
\* when the graph with the edge inserted has at most MAX_NODES nodes and no
\* node flagged is_seed is more than MAX_DEPTH hops from a node it reaches, and
\* is refused with a constraint violation otherwise; with A -> B and B -> C
\* stored, C -> X is refused.
C14_AddEdgeAcceptance ==
    [][\A e \in AllEdgeInputs :
        (/\ ~LocallyInvalid(e)
         /\ DictHas(nodes, e.source_node_id)
         /\ DictHas(nodes, e.target_node_id)
         /\ AddEdge(e))
            => /\ result'.op = "add_edge"
               /\ result'.outcome \in {"ok", "ConstraintViolationError"}
               /\ result'.outcome = "ok"
                    <=> /\ Len(nodes) <= MAX_NODES
                        /\ SeedDepth(GraphWith(Store, e)) <= MAX_DEPTH]_vars

\* C15: the node map, edge map, adjacency index and edge counter after
\* from_dict depend on the snapshot alone: they are what from_dict gives on a
\* new store, whatever the store held before, and a second from_dict of the
\* same snapshot changes nothing.
C15_ImportFullReset ==
    [][\A data \in EditSnapshots :
        Import(data)
            => /\ StoreAfter = FromDict(NewStore, data).store
               /\ result'.outcome = FromDict(NewStore, data).outcome
               /\ FromDict(StoreAfter, data).store = StoreAfter]_vars

\* C15 witness: the deep snapshot was loaded into a store on which add_edge had
\* been called
C15_Witness ==
    /\ result = Result("from_dict", "ok", NoId)
    /\ issued >= 1
    /\ edge_counter = 0
    /\ DictKeys(edges) = DictKeys(DeepSnapshot.edges)

C17_ImportKeepsEdgeIds ==
    [][(result' = Result("from_dict", "ok", NoId) /\ SaveLoad)
        => LET snapshot == ToDict(Store)
               ids == DictKeys(snapshot.edges)
               Touches(id, n) ==
                   \/ DictGet(snapshot.edges, id).source_node_id = n
                   \/ DictGet(snapshot.edges, id).target_node_id = n
           IN  /\ DictKeys(edges') = ids
               /\ \A n \in DictKeySet(nodes') :
                     node_edges'[n] = SelectSeq(ids, LAMBDA id : Touches(id, n))]_vars

\* C17 witness: from_dict has loaded three edges, more than the new counter
\* value accounts for
C17_Witness ==
    /\ result = Result("from_dict", "ok", NoId)
    /\ Len(edges) = 3
    /\ edge_counter = 0

\* C18: validate_with_umls on an id that is not a key of the node map fails and
\* changes nothing; otherwise it sets the ontology_ref of that node and changes
\* nothing else: the node ids, every other field of every node (is_seed
\* included), the edge map, the adjacency index and the edge counter stay.
C18_ValidateWithUmlsFrame ==
    [][\A node_id \in UmlsNodeIds \cup LoadUmlsNodeIds, umls_cui \in UmlsCuis :
        ValidateWithUmls(node_id, umls_cui)
            => IF ~DictHas(nodes, node_id)
               THEN /\ result' = Result("validate_with_umls", "ValueError", NoId)
                    /\ UNCHANGED <<nodes, edges, node_edges, edge_counter>>
               ELSE /\ result' = Result("validate_with_umls", "ok", NoId)
                    /\ Len(nodes') = Len(nodes)
                    /\ \A i \in 1..Len(nodes) :
                          nodes'[i] =
                              IF nodes[i].k = node_id
                              THEN [k |-> node_id,
                                    v |-> [nodes[i].v EXCEPT !.ontology_ref = umls_cui]]
                              ELSE nodes[i]
                    /\ UNCHANGED <<edges, node_edges, edge_counter>>]_vars

\* C18 witness: validate_with_umls has set the ontology_ref of seed A, which
\* has an edge and is still flagged is_seed
C18_Witness ==
    /\ result = Result("validate_with_umls", "ok", NoId)
    /\ DictGet(nodes, A).ontology_ref \in UmlsCuis
    /\ DictGet(nodes, A).is_seed
    /\ node_edges[A] # <<>>

\* C19: get_statistics, to_dict, get_node, get_edge, get_seed_nodes,
\* get_node_edges and get_neighbors leave the node map, the edge map, the
\* adjacency index and the edge counter as they were, also when called with an
\* id the store does not know.
C19_ReadsArePure ==
    [][result'.op \in ReadOps
        => UNCHANGED <<nodes, edges, node_edges, edge_counter>>]_vars

\* C19 witness: get_node_edges was called on a store that holds the three
\* loaded edges and has no adjacency list for the unknown id
C19_Witness ==
    /\ result = Result("get_node_edges", "ok", NoId)
    /\ Len(edges) = 3
    /\ "unknown_node" \notin DOMAIN node_edges

\* C20: in every reachable state and for every node id n, get_node_edges(n,
\* 'outgoing') lists exactly the stored edges whose source is n,
\* get_node_edges(n, 'incoming') exactly those whose target is n, and
\* get_node_edges(n, 'both') exactly the edges of either kind, none listed
\* twice; get_neighbors(n, d) gives exactly the nodes at the other end of
\* those edges, each once and never n itself.
C20_DirectionFiltering ==
    LET Entries(list) == {list[i] : i \in 1..Len(list)}
        Listed(n, d) == GetNodeEdgesOp(Store, n, d).value
        Stored(n, d) ==
            {edges[j] : j \in {h \in 1..Len(edges) :
                \/ d \in {"outgoing", "both"} /\ edges[h].v.source_node_id = n
                \/ d \in {"incoming", "both"} /\ edges[h].v.target_node_id = n}}
        Ends(n, d) ==
            {p.v.target_node_id : p \in {q \in Stored(n, d) :
                d \in {"outgoing", "both"} /\ q.v.source_node_id = n}}
            \cup
            {p.v.source_node_id : p \in {q \in Stored(n, d) :
                d \in {"incoming", "both"} /\ q.v.target_node_id = n}}
    IN  \A n \in DictKeySet(nodes) \cup DOMAIN node_edges \cup {"unknown_node"} :
            \A d \in Directions :
                /\ Entries(Listed(n, d)) = Stored(n, d)
                /\ Len(Listed(n, d)) = Cardinality(Stored(n, d))
                /\ GetNeighborsOp(Store, n, d).value =
                      {DictGet(nodes, x) : x \in Ends(n, d) \cap DictKeySet(nodes)}
                /\ \A v \in GetNeighborsOp(Store, n, d).value : v.node_id # n

\* C21: in every reachable state get_statistics() reports the number of node
\* ids, the number of edge ids, the number of nodes flagged is_seed and the
\* computed depth, and its two histograms sum to num_nodes and num_edges.
C21_StatisticsConsistent ==
    LET st == GetStatistics(Store)
    IN  /\ st.num_nodes = Cardinality(DictKeySet(nodes))
        /\ st.num_edges = Cardinality(DictKeySet(edges))
        /\ st.num_seed_nodes = Cardinality(SeedFlagged(Store))
        /\ st.max_depth = CalculateMaxDepth(Store)
        /\ SumCounts(st.entity_types, DOMAIN st.entity_types) = st.num_nodes
        /\ SumCounts(st.relationship_types, DOMAIN st.relationship_types) = st.num_edges

\* C21 witness: four nodes are flagged is_seed and the stored edges have two
\* relationship types
C21_Witness ==
    /\ Cardinality(SeedFlagged(Store)) = Len(SEED_ENTITIES) + 1
    /\ Cardinality(DOMAIN GetStatistics(Store).relationship_types) = 2

\* C22: in every reachable state, states with no node flagged is_seed included,
\* _calculate_max_depth() is the largest, over the nodes flagged is_seed, of the
\* hop counts along outgoing edges to the nodes reachable from them, and 0 when
\* no node is flagged.
C22_DepthMatchesReference == CalculateMaxDepth(Store) = SeedDepth(Store)

\* C23: an add_edge that is refused, for an unknown endpoint or for a
\* constraint violation, has no effect on the ids of later edges: the id a
\* following add_edge returns is the one it would have returned without the
\* refused call.
C23_RejectedEdgeKeepsIds ==
    [][(result'.op = "add_edge" /\ result'.outcome # "ok")
        => \A e \in AllEdgeInputs :
              (/\ ~LocallyInvalid(e)
               /\ DictHas(nodes, e.source_node_id)
               /\ DictHas(nodes, e.target_node_id))
                  => AddEdgeOp(StoreAfter, e).id = AddEdgeOp(Store, e).id]_vars

\* C24: over add_node, add_edge and validate_with_umls calls on one store, no
\* call removes a node id or an edge id, and a stored edge keeps its id,
\* source, target, relationship type, evidence and confidence.
C24_AdditiveOnly ==
    [][/\ DictKeySet(nodes) \subseteq DictKeySet(nodes')
       /\ \A i \in 1..Len(edges) :
            /\ DictHas(edges', edges[i].k)
            /\ DictGet(edges', edges[i].k) = edges[i].v]_vars

\* C24 witness: add_edge was refused for depth and rolled back while two
\* earlier edges are stored
C24_Witness ==
    /\ result = Result("add_edge", "ConstraintViolationError", NoId)
    /\ Len(edges) = 2
    /\ edge_counter = 3

\* C25: add_edge leaves the node map as it was, whether it succeeds, is refused
\* for an unknown endpoint or is rolled back: it creates no node, removes none
\* and alters no node field.
C25_AddEdgeKeepsNodes ==
    [][\A e \in AllEdgeInputs : AddEdge(e) => nodes' = nodes]_vars

\* C25 witness: add_edge was refused for the unknown endpoint X and the node
\* map holds the seeds only
C25_Witness ==
    /\ result = Result("add_edge", "ValueError", NoId)
    /\ ~DictHas(nodes, X)
    /\ Len(nodes) = Len(SEED_ENTITIES)

\* C26: for every store content, directed cycles, parallel edges and ids
\* missing from the node or edge map included, _bfs_depth adds each node to
\* visited at most once and returns, so that the depth computed by add_edge and
\* get_statistics is defined.
C26_DepthTerminates ==
    \A start \in DictKeySet(nodes) \cup {"unknown_node"} :
        LET t == BfsTrace(Store, start)
        IN  /\ t.returned
            /\ \A i, j \in 1..Len(t.visits) : i # j => t.visits[i] # t.visits[j]
            /\ t.pops <= 1 + AdjacencyEntries(Store, DOMAIN node_edges)

\* C26 witness: the stored edges hold the cycle A -> B -> A and an edge whose
\* target is not a node
C26_Witness ==
    /\ \E i, j \in 1..Len(edges) :
          /\ edges[i].v.source_node_id = A /\ edges[i].v.target_node_id = B
          /\ edges[j].v.source_node_id = B /\ edges[j].v.target_node_id = A
    /\ \E i \in 1..Len(edges) : ~DictHas(nodes, edges[i].v.target_node_id)

\* C27: in every state reached by add_node, add_edge, validate_with_umls and
\* save / load, every node id has an adjacency list, every edge id of the edge
\* map is exactly once in the list of its source, exactly once in the list of
\* its target and in no other list, and every id in a list is a key of the
\* edge map.
C27_AdjacencyConsistent ==
    LET Count(list, x) == Cardinality({i \in 1..Len(list) : list[i] = x})
    IN  /\ DictKeySet(nodes) \subseteq DOMAIN node_edges
        /\ \A i \in 1..Len(edges) :
              \A n \in DOMAIN node_edges :
                  Count(node_edges[n], edges[i].k) =
                      IF n \in {edges[i].v.source_node_id, edges[i].v.target_node_id}
                      THEN 1 ELSE 0
        /\ \A n \in DOMAIN node_edges :
              \A i \in 1..Len(node_edges[n]) : DictHas(edges, node_edges[n][i])

\* C28: in every state reached by add_node, add_edge, validate_with_umls and
\* from_dict of a snapshot that to_dict produced from a reachable store, the
\* source_node_id and target_node_id of every stored edge are keys of the node
\* map.
C28_ReferentialIntegrity ==
    \A i \in 1..Len(edges) :
        /\ DictHas(nodes, edges[i].v.source_node_id)
        /\ DictHas(nodes, edges[i].v.target_node_id)

\* C29: when from_dict fails, for a node or edge record that breaks a local
\* invariant or because the nodes of the snapshot exceed MAX_NODES, the node
\* map, the edge map, the adjacency index and the edge counter are what they
\* were before the call.
C29_FailedImportNotApplied ==
    [][(result'.op = "from_dict" /\ result'.outcome # "ok")
        => UNCHANGED <<nodes, edges, node_edges, edge_counter>>]_vars

====
